---- MODULE Spec2Model ----
(***************************************************************************)
(* Model of the trigger-driven still capture loop of dashcam.cpp:          *)
(*   - the orchestrator thread: the while(1) loop of main(), lines         *)
(*     1394-1448, one action per statement that touches shared state;      *)
(*   - the delivery thread: encoder_buffer_callback(), lines 470-530,      *)
(*     split at every access to state shared with the orchestrator         *)
(*     (pool queue, port->is_enabled, semaphore, outputFileFD);            *)
(*   - the MMAL encoder output port and its buffer pool, as far as the     *)
(*     two threads observe them: mmal_queue_get / mmal_buffer_header_      *)
(*     release on the pool queue, mmal_port_send_buffer (fails on a        *)
(*     disabled port or on an error of the component), mmal_port_disable   *)
(*     (hands every buffer the port still holds back through the callback  *)
(*     and returns when no buffer is in transit).                          *)
(* The encode stage is an environment: after a capture request it fills    *)
(* buffers it holds and delivers them, the last one of a frame carrying    *)
(* FRAME_END or TRANSMISSION_FAILED.  A frame that is still owed when the  *)
(* port is disabled stays owed and is delivered once the port is enabled   *)
(* again.  mmal_port_enable is taken to succeed (main ignores its status). *)
(* Callbacks of the port run one at a time.                                *)
(***************************************************************************)
EXTENDS Integers, Sequences, FiniteSets, TLC

\* ---- bounds of the model -------------------------------------------------
NSlots == 2        \* buffer headers in the encoder pool (buffer_num)
MaxPulses == 2     \* trigger pulses the environment produces
MaxChunks == 1     \* buffers without a marker the encoder emits per frame
MaxSendFail == 2   \* mmal_port_send_buffer errors on an enabled port
MaxTicks == 100    \* calls of wait_for_next_frame in one run
MaxDelays == 2     \* times the caller is held up between two calls
MaxLateSteps == 5  \* longest single hold-up, in steps of TimeGrid
MaxHeldCalls == 4  \* hold-ups happen before this many calls have been made
MaxConns == 2      \* connections the upload receiver accepts
MaxStream == 2     \* bytes a peer sends on one connection

\* ---- program constants ---------------------------------------------------
FD_UNOPENED == 0 - 1   \* outputFileFD=-1 : no destination opened yet
FD_CLOSED == 0         \* outputFileFD=0  : initial value and value after close
FD_FILE == 3           \* a descriptor returned by a successful open()

FRAME_END == "FRAME_END"
TRANSMISSION_FAILED == "TRANSMISSION_FAILED"

FRAME_NEXT_SINGLE == 0
FRAME_NEXT_TIMELAPSE == 1
FRAME_NEXT_KEYPRESS == 2
FRAME_NEXT_FOREVER == 3
FRAME_NEXT_GPIO == 4
FRAME_NEXT_SIGNAL == 5
FRAME_NEXT_IMMEDIATELY == 6
Methods == 0..6

INADDR_ANY == 0            \* serv_addr.sin_addr.s_addr = INADDR_ANY
GRAB_BUFFER == 4096        \* char buffer[4*1024]
Peers == {1, 2}            \* cli_addr.sin_addr.s_addr of the peers
GrabNames == {INADDR_ANY} \cup Peers
StreamBytes == {1, 2}
EX_OK == 0                 \* int exit_code = EX_OK
EX_SOFTWARE == 70          \* exit_code = EX_SOFTWARE
SIGINT_EXIT == 130         \* exit(130)
DefaultTimeout == 5000     \* state->timeout = 5000
DefaultTimelapse == 0      \* state->timelapse = 0
SingleSleep == 5000        \* vcos_sleep(5000)
ForeverSleep == 10000      \* vcos_sleep(10000)
FirstFrameSleep == 1000    \* vcos_sleep(1000)
NextFrameSleep == 30       \* vcos_sleep(30)
Unset == 0 - 1             \* initial value of complete_time, next_frame_ms

\* configurations the policy is explored with
Timeouts == {0, 2, DefaultTimeout}
Intervals == {DefaultTimelapse, 3, 4, 1000}
Keys == {"x", "X", "n"}    \* getchar(): an exit character or another one
StartFrames == {0, 7}      \* *frame when the first call is made

Slots == 1..NSlots
NoSlot == 0
FlagSets == {{}, {FRAME_END}, {TRANSMISSION_FAILED}}
Lengths == {0, 1}      \* buffer->length: zero or non-zero payload

VARIABLES
  \* orchestrator (main)
  mpc,            \* position in the capture loop
  num, q,         \* locals of the priming loop
  frame,          \* int frame
  \* trigger line
  gpio,           \* level of pin 21
  pulses,         \* rising edges produced so far
  \* encoder output port and pool
  is_enabled,     \* port->is_enabled
  userdata,       \* port->userdata is set
  free,           \* the pool's queue (FIFO of buffer headers)
  inFlight,       \* buffer headers the port holds
  dropped,        \* headers taken from the queue whose send failed
  sendFails,      \* component errors of mmal_port_send_buffer so far
  \* delivery callback
  cpc,            \* position in encoder_buffer_callback
  cbuf,           \* the delivered buffer, until it is released
  cbLen, cbFlags, \* buffer->length, buffer->flags
  cbFlush,        \* the buffer is handed back by mmal_port_disable
  cbShort,        \* write() returned a count different from the length
  complete,       \* int complete
  \* shared
  sem,            \* count of complete_semaphore
  outputFileFD,   \* the global descriptor
  fdOpen,         \* the descriptor stored in outputFileFD is open
  stdinOpen,      \* descriptor 0 of the process is open
  fdLeaked,       \* an open descriptor was overwritten without close
  \* encode stage
  encOwed,        \* capture requests whose marker is not yet delivered
  encChunks,      \* unmarked buffers delivered of the current frame
  \* history of the current session (since the port was enabled for it)
  postsInSession, \* semaphore posts
  markerInSession,\* a buffer with a marker reached the callback
  sessLog,        \* buffers the encoder delivered: <<length, marker, short>>
  errInSession,   \* a recoverable error happened
  staleWake,      \* the wait was satisfied without a post of this session
  \* the destination /var/www/html/left.jpg and the payload
  fileData,       \* bytes of the file
  filePos,        \* file offset of the descriptor in outputFileFD
  cbByte,         \* the value of the bytes in buffer->data
  encFrame,       \* number of the frame the encode stage is emitting
  sessBytes,      \* payload bytes handed to the callback in this session
  sessOpened,     \* open() in this session: "none", "opened" or "failed"
  \* frame advance policy: wait_for_next_frame and what it reads
  frameNextMethod,\* state->frameNextMethod
  timeout,        \* state->timeout
  timelapse,      \* state->timelapse
  now,            \* vcos_getmicrosecs64() / 1000
  complete_time,  \* static int64_t complete_time
  next_frame_ms,  \* static int64_t next_frame_ms
  polFault,       \* "none", or how a division by zero ended the calls
  polCalls,       \* calls of wait_for_next_frame so far
  delays,         \* hold-ups so far
  lastCall,       \* record of the last call (see NoCall)
  burstSets,      \* times MMAL_PARAMETER_CAMERA_BURST_CAPTURE was set to 1
  state,          \* RASPISTILL_STATE pointers and exit_code (see RunningState)
  grab            \* the upload receiver of dashgrab.cpp (see GrabIdle)

mainVars == <<mpc, num, q, frame>>
trigVars == <<gpio, pulses>>
portVars == <<is_enabled, userdata, free, inFlight, dropped, sendFails>>
cbVars == <<cpc, cbuf, cbLen, cbFlags, cbFlush, cbShort, complete>>
fdVars == <<outputFileFD, fdOpen, stdinOpen, fdLeaked>>
encVars == <<encOwed, encChunks>>
histVars == <<postsInSession, markerInSession, sessLog, errInSession, staleWake>>
fileVars == <<fileData, filePos, cbByte, encFrame, sessBytes, sessOpened>>
polVars == <<frameNextMethod, timeout, timelapse, now, complete_time,
             next_frame_ms, polFault, polCalls, delays, lastCall>>
captureVars == <<mpc, num, q, trigVars, portVars, cbVars, sem, fdVars, encVars,
                 histVars, fileVars, burstSets, state, grab>>
vars == <<mainVars, trigVars, portVars, cbVars, sem, fdVars, encVars, histVars,
          fileVars, polVars, burstSets, state, grab>>

\* ---- helpers -------------------------------------------------------------
SeqToSet(s) == {s[i] : i \in 1..Len(s)}

\* the consecutive queue 1..n in order
RECURSIVE InitialQueue(_)
InitialQueue(n) == IF n = 0 THEN <<>> ELSE Append(InitialQueue(n - 1), n)

\* slots held by a running callback invocation
InDelivery == IF cbuf = NoSlot THEN {} ELSE {cbuf}

HasMarker(flags) == flags \cap {FRAME_END, TRANSMISSION_FAILED} # {}

\* buffer->data: len bytes of the frame being emitted
BufferData(len, byte) == [i \in 1..len |-> byte]

\* open(path, O_RDWR | O_CREAT): the bytes of the file after a successful
\* open; the flags hold no O_TRUNC, an existing file keeps its bytes
ContentAfterOpen(f) == f

\* write(fd, data, n) that writes all n bytes at offset pos of file f
WriteAt(f, pos, d) ==
  [i \in 1..(IF Len(f) > pos + Len(d) THEN Len(f) ELSE pos + Len(d)) |->
     IF i > pos /\ i <= pos + Len(d) THEN d[i - pos] ELSE f[i]]

\* what is remembered of the last call of wait_for_next_frame
\*   ret      its return value (0 stop, not 0 continue)
\*   at       current_time read at entry
\*   frame0   *frame at entry
\*   next0    next_frame_ms at entry
\*   slept    milliseconds passed to vcos_sleep
\*   nskip    int nskip (0 when no frame was skipped)
\*   branch   the path taken through the TIMELAPSE case
\*   key      the character read in the KEYPRESS case
\*   drifted  the caller was held up since the first call
\*   start    current_time at entry of the first call
NoCall ==
  [ret |-> 1, at |-> 0, frame0 |-> 0, next0 |-> Unset, slept |-> 0,
   nskip |-> 0, branch |-> "none", key |-> "n", drifted |-> FALSE,
   start |-> 0]

\* No connection yet.  pc is "select" (acceptThread waits) or "process"
\* (processClient runs; the future returned by std::async is destroyed at
\* once, so acceptThread waits for it).  peer is cli_addr of the connection,
\* toRead the bytes it has still to deliver, sent all it has delivered,
\* name and pos the file processClient opened and its offset, files the
\* content of every file by name, accepted the connections so far.
GrabIdle ==
  [pc |-> "select", peer |-> INADDR_ANY, toRead |-> <<>>, sent |-> <<>>,
   name |-> INADDR_ANY, pos |-> 0,
   files |-> [n \in GrabNames |-> <<>>], accepted |-> 0]

\* A pointer of RASPISTILL_STATE is "null", "live" (it refers to a component
\* that exists) or "dangling" (the component it refers to was destroyed).
\* failed is the step of the setup that returned a failure status, "none"
\* when none did.
NoComponents ==
  [camera_component |-> "null", preview_component |-> "null",
   encoder_component |-> "null", encoder_pool |-> "null",
   preview_connection |-> "null", encoder_connection |-> "null",
   exit_code |-> EX_OK, failed |-> "none"]

\* all three components created, the capture loop can run
RunningState ==
  [NoComponents EXCEPT !.camera_component = "live",
                       !.preview_component = "live",
                       !.encoder_component = "live",
                       !.encoder_pool = "live",
                       !.preview_connection = "live",
                       !.encoder_connection = "live"]

\* the state main() sets up before the capture loop
CaptureInit ==
  /\ mpc = "reset"
  /\ num = 0 /\ q = 0
  /\ gpio = 0 /\ pulses = 0
  /\ is_enabled = FALSE /\ userdata = FALSE
  /\ free = InitialQueue(NSlots)
  /\ inFlight = {} /\ dropped = {} /\ sendFails = 0
  /\ cpc = "idle" /\ cbuf = NoSlot /\ cbLen = 0 /\ cbFlags = {}
  /\ cbFlush = FALSE /\ cbShort = FALSE /\ complete = 0
  /\ sem = 0
  /\ outputFileFD = FD_CLOSED /\ fdOpen = FALSE /\ stdinOpen = TRUE
  /\ fdLeaked = FALSE
  /\ encOwed = 0 /\ encChunks = 0
  /\ postsInSession = 0 /\ markerInSession = FALSE /\ sessLog = <<>>
  /\ errInSession = FALSE /\ staleWake = FALSE
  /\ fileData = <<>> /\ filePos = 0 /\ cbByte = 0 /\ encFrame = 1
  /\ sessBytes = <<>> /\ sessOpened = "none"
  /\ burstSets = 0
  /\ state = RunningState
  /\ grab = GrabIdle

\* default_status(): SINGLE policy, 5 s timeout, no timelapse interval
Init ==
  /\ CaptureInit
  /\ frame = 0
  /\ frameNextMethod = FRAME_NEXT_SINGLE
  /\ timeout = DefaultTimeout
  /\ timelapse = DefaultTimelapse
  /\ now = 0
  /\ complete_time = Unset /\ next_frame_ms = Unset
  /\ polFault = "none" /\ polCalls = 0 /\ delays = 0
  /\ lastCall = NoCall

\* ---- MMAL primitives as the two threads observe them ---------------------

\* mmal_port_send_buffer: the results a call can have.  It fails on a port
\* that is not enabled; on an enabled port the component may still refuse.
SendResults ==
  IF ~is_enabled THEN {FALSE}
  ELSE {TRUE} \cup (IF sendFails < MaxSendFail THEN {FALSE} ELSE {})

\* int complete after lines 487-503: a short write or a marker sets it
CompleteAfter_markerOnly(short, flags) == IF HasMarker(flags) THEN 1 ELSE 0

CompleteAfter_shortOnly(short, flags) == IF short THEN 1 ELSE 0

CompleteAfter(short, flags) == IF short \/ HasMarker(flags) THEN 1 ELSE 0

\* ---- trigger line (pin 21, driven from outside the capture loop) ---------
trigger_rise ==
  /\ gpio = 0 /\ pulses < MaxPulses
  /\ gpio' = 1 /\ pulses' = pulses + 1
  /\ UNCHANGED <<mainVars, portVars, cbVars, sem, fdVars, encVars, histVars>>
  /\ UNCHANGED fileVars
  /\ UNCHANGED polVars
  /\ UNCHANGED burstSets
  /\ UNCHANGED state
  /\ UNCHANGED grab

trigger_fall ==
  /\ gpio = 1
  /\ gpio' = 0
  /\ UNCHANGED <<pulses, mainVars, portVars, cbVars, sem, fdVars, encVars, histVars>>
  /\ UNCHANGED fileVars
  /\ UNCHANGED polVars
  /\ UNCHANGED burstSets
  /\ UNCHANGED state
  /\ UNCHANGED grab

\* ---- orchestrator: the capture loop of main() ----------------------------

\* line 1395: outputFileFD=-1
main_reset ==
  /\ mpc = "reset"
  /\ outputFileFD' = FD_UNOPENED
  /\ fdLeaked' = (fdLeaked \/ fdOpen)
  /\ fdOpen' = FALSE
  /\ mpc' = "waithigh"
  /\ UNCHANGED <<num, q, frame, stdinOpen, trigVars, portVars, cbVars, sem,
                 encVars, histVars>>
  /\ UNCHANGED fileVars
  /\ UNCHANGED polVars
  /\ UNCHANGED burstSets
  /\ UNCHANGED state
  /\ UNCHANGED grab

\* lines 1396-1398: do { input = digitalRead(21); } while (input == 0)
main_wait_high ==
  /\ mpc = "waithigh"
  /\ gpio = 1
  /\ mpc' = "enable"
  /\ UNCHANGED <<num, q, frame, trigVars, portVars, cbVars, sem, fdVars,
                 encVars, histVars>>
  /\ UNCHANGED fileVars
  /\ UNCHANGED polVars
  /\ UNCHANGED burstSets
  /\ UNCHANGED state
  /\ UNCHANGED grab

\* lines 1405-1407: set userdata, mmal_port_enable
main_enable ==
  /\ mpc = "enable"
  /\ userdata' = TRUE
  /\ is_enabled' = TRUE
  /\ postsInSession' = 0
  /\ markerInSession' = FALSE
  /\ sessLog' = <<>>
  /\ errInSession' = FALSE
  /\ staleWake' = FALSE
  /\ sessBytes' = <<>>
  /\ sessOpened' = "none"
  /\ UNCHANGED <<fileData, filePos, cbByte, encFrame>>
  /\ mpc' = "qlen"
  /\ UNCHANGED <<num, q, frame, trigVars, free, inFlight, dropped, sendFails,
                 cbVars, sem, fdVars, encVars>>
  /\ UNCHANGED polVars
  /\ UNCHANGED burstSets
  /\ UNCHANGED state
  /\ UNCHANGED grab

main_queue_length_noPriming ==
  /\ mpc = "qlen"
  /\ num' = Len(free)
  /\ q' = 0
  /\ mpc' = "capture"
  /\ UNCHANGED <<frame, trigVars, portVars, cbVars, sem, fdVars, encVars,
                 histVars>>
  /\ UNCHANGED fileVars
  /\ UNCHANGED polVars
  /\ UNCHANGED burstSets
  /\ UNCHANGED state
  /\ UNCHANGED grab

\* line 1412: num = mmal_queue_length(state.encoder_pool->queue)
main_queue_length ==
  /\ mpc = "qlen"
  /\ IF state.encoder_pool = "live"
     THEN /\ num' = Len(free)
          /\ q' = 0
          /\ mpc' = "prime"
     ELSE \* state.encoder_pool->queue with no pool
          /\ mpc' = "crashed"
          /\ UNCHANGED <<num, q>>
  /\ UNCHANGED <<frame, trigVars, portVars, cbVars, sem, fdVars, encVars,
                 histVars>>
  /\ UNCHANGED fileVars
  /\ UNCHANGED polVars
  /\ UNCHANGED burstSets
  /\ UNCHANGED state
  /\ UNCHANGED grab

\* lines 1414-1426: one pass of for (q = 0; q < num; q++)
main_prime ==
  /\ mpc = "prime"
  /\ IF q < num
     THEN /\ q' = q + 1
          /\ IF free = <<>>
             THEN \* mmal_queue_get returned NULL: logged, and NULL is still
                  \* passed to mmal_port_send_buffer (undefined behaviour:
                  \* the call faults or returns an error)
                  /\ \E faults \in BOOLEAN :
                       mpc' = IF faults THEN "crashed" ELSE "prime"
                  /\ errInSession' = TRUE
                  /\ UNCHANGED <<free, inFlight, dropped, sendFails>>
             ELSE \E ok \in SendResults :
                  /\ free' = Tail(free)
                  /\ IF ok
                     THEN /\ inFlight' = inFlight \cup {Head(free)}
                          /\ UNCHANGED <<dropped, sendFails, errInSession>>
                     ELSE /\ dropped' = dropped \cup {Head(free)}
                          /\ sendFails' = sendFails + 1
                          /\ errInSession' = TRUE
                          /\ UNCHANGED inFlight
                  /\ mpc' = "prime"
     ELSE /\ mpc' = "capture"
          /\ UNCHANGED <<q, free, inFlight, dropped, sendFails, errInSession>>
  /\ UNCHANGED <<num, frame, trigVars, is_enabled, userdata, cbVars, sem,
                 fdVars, encVars, postsInSession, markerInSession, sessLog,
                 staleWake>>
  /\ UNCHANGED fileVars
  /\ UNCHANGED polVars
  /\ UNCHANGED burstSets
  /\ UNCHANGED state
  /\ UNCHANGED grab

main_capture_burstEveryShot ==
  /\ mpc = "capture"
  /\ burstSets' = burstSets + 1
  /\ frame' = frame + 1
  /\ encOwed' = encOwed + 1
  /\ mpc' = "semwait"
  /\ UNCHANGED <<num, q, trigVars, portVars, cbVars, sem, fdVars, encChunks,
                 histVars>>
  /\ UNCHANGED fileVars
  /\ UNCHANGED polVars
  /\ UNCHANGED state
  /\ UNCHANGED grab

\* lines 1430-1440: burst mode before the first shot, frame++,
\* MMAL_PARAMETER_CAPTURE on the still port
main_capture ==
  /\ mpc = "capture"
  /\ burstSets' = (IF frame = 0 THEN burstSets + 1 ELSE burstSets)
  /\ frame' = frame + 1
  /\ encOwed' = encOwed + 1
  /\ mpc' = "semwait"
  /\ UNCHANGED <<num, q, trigVars, portVars, cbVars, sem, fdVars, encChunks,
                 histVars>>
  /\ UNCHANGED fileVars
  /\ UNCHANGED polVars
  /\ UNCHANGED state
  /\ UNCHANGED grab

\* line 1442: vcos_semaphore_wait
main_sem_wait_nodisable ==
  /\ mpc = "semwait"
  /\ sem > 0
  /\ sem' = sem - 1
  /\ staleWake' = (postsInSession = 0)
  /\ mpc' = "waitlow"
  /\ UNCHANGED <<num, q, frame, trigVars, portVars, cbVars, fdVars, encVars,
                 postsInSession, markerInSession, sessLog, errInSession>>
  /\ UNCHANGED fileVars
  /\ UNCHANGED polVars
  /\ UNCHANGED burstSets
  /\ UNCHANGED state
  /\ UNCHANGED grab

main_sem_wait ==
  /\ mpc = "semwait"
  /\ sem > 0
  /\ sem' = sem - 1
  /\ staleWake' = (postsInSession = 0)
  /\ mpc' = "disable"
  /\ UNCHANGED <<num, q, frame, trigVars, portVars, cbVars, fdVars, encVars,
                 postsInSession, markerInSession, sessLog, errInSession>>
  /\ UNCHANGED fileVars
  /\ UNCHANGED polVars
  /\ UNCHANGED burstSets
  /\ UNCHANGED state
  /\ UNCHANGED grab

\* line 1443: mmal_port_disable, entry: the port stops accepting buffers
main_disable ==
  /\ mpc = "disable"
  /\ is_enabled' = FALSE
  /\ mpc' = "disabling"
  /\ UNCHANGED <<num, q, frame, trigVars, userdata, free, inFlight, dropped,
                 sendFails, cbVars, sem, fdVars, encVars, histVars>>
  /\ UNCHANGED fileVars
  /\ UNCHANGED polVars
  /\ UNCHANGED burstSets
  /\ UNCHANGED state
  /\ UNCHANGED grab

main_disable_return_noWait ==
  /\ mpc = "disabling"
  /\ mpc' = "waitlow"
  /\ UNCHANGED <<num, q, frame, trigVars, portVars, cbVars, sem, fdVars,
                 encVars, histVars>>
  /\ UNCHANGED fileVars
  /\ UNCHANGED polVars
  /\ UNCHANGED burstSets
  /\ UNCHANGED state
  /\ UNCHANGED grab

\* line 1443: mmal_port_disable returns when no buffer is in transit
main_disable_return ==
  /\ mpc = "disabling"
  /\ inFlight = {}
  /\ cpc = "idle"
  /\ mpc' = "waitlow"
  /\ UNCHANGED <<num, q, frame, trigVars, portVars, cbVars, sem, fdVars,
                 encVars, histVars>>
  /\ UNCHANGED fileVars
  /\ UNCHANGED polVars
  /\ UNCHANGED burstSets
  /\ UNCHANGED state
  /\ UNCHANGED grab

\* lines 1445-1447: do { input = digitalRead(21); } while (input == 1)
main_wait_low_noPoll ==
  /\ mpc = "waitlow"
  /\ mpc' = "reset"
  /\ UNCHANGED <<num, q, frame, trigVars, portVars, cbVars, sem, fdVars,
                 encVars, histVars>>
  /\ UNCHANGED fileVars
  /\ UNCHANGED polVars
  /\ UNCHANGED burstSets
  /\ UNCHANGED state
  /\ UNCHANGED grab

main_wait_low ==
  /\ mpc = "waitlow"
  /\ gpio = 0
  /\ mpc' = "reset"
  /\ UNCHANGED <<num, q, frame, trigVars, portVars, cbVars, sem, fdVars,
                 encVars, histVars>>
  /\ UNCHANGED fileVars
  /\ UNCHANGED polVars
  /\ UNCHANGED burstSets
  /\ UNCHANGED state
  /\ UNCHANGED grab

\* ---- encoder output port: handing a buffer to the callback ---------------

\* the encode stage returns a filled buffer of the frame it owes
port_deliver ==
  /\ cpc = "idle"
  /\ is_enabled
  /\ encOwed > 0
  /\ \E s \in inFlight, len \in Lengths, flags \in FlagSets :
       /\ HasMarker(flags) \/ encChunks < MaxChunks
       /\ inFlight' = inFlight \ {s}
       /\ cbuf' = s /\ cbLen' = len /\ cbFlags' = flags
       /\ IF HasMarker(flags)
          THEN /\ encOwed' = encOwed - 1 /\ encChunks' = 0
               /\ encFrame' = encFrame + 1
          ELSE /\ encOwed' = encOwed /\ encChunks' = encChunks + 1
               /\ encFrame' = encFrame
  /\ cbByte' = encFrame
  /\ UNCHANGED <<fileData, filePos, sessBytes, sessOpened>>
  /\ cbFlush' = FALSE
  /\ cpc' = "body"
  /\ UNCHANGED <<mainVars, trigVars, is_enabled, userdata, free, dropped,
                 sendFails, cbShort, complete, sem, fdVars, histVars>>
  /\ UNCHANGED polVars
  /\ UNCHANGED burstSets
  /\ UNCHANGED state
  /\ UNCHANGED grab

\* mmal_port_disable hands an unfilled buffer back through the callback
port_flush ==
  /\ cpc = "idle"
  /\ mpc = "disabling"
  /\ \E s \in inFlight :
       /\ inFlight' = inFlight \ {s}
       /\ cbuf' = s
  /\ cbLen' = 0 /\ cbFlags' = {}
  /\ cbByte' = 0
  /\ UNCHANGED <<fileData, filePos, encFrame, sessBytes, sessOpened>>
  /\ cbFlush' = TRUE
  /\ cpc' = "body"
  /\ UNCHANGED <<mainVars, trigVars, is_enabled, userdata, free, dropped,
                 sendFails, cbShort, complete, sem, fdVars, encVars, histVars>>
  /\ UNCHANGED polVars
  /\ UNCHANGED burstSets
  /\ UNCHANGED state
  /\ UNCHANGED grab

\* ---- encoder_buffer_callback ---------------------------------------------

\* lines 472-506: lazy open, write, completion flag
cb_body ==
  /\ cpc = "body"
  /\ IF userdata
     THEN \E opened \in BOOLEAN, short \in BOOLEAN :
          LET fd1 == IF outputFileFD = FD_UNOPENED
                     THEN (IF opened THEN FD_FILE ELSE FD_UNOPENED)
                     ELSE outputFileFD
              writes == cbLen # 0 /\ fd1 > 0
              opens == outputFileFD = FD_UNOPENED /\ opened
              file1 == IF opens THEN ContentAfterOpen(fileData) ELSE fileData
              pos1 == IF opens THEN 0 ELSE filePos
              data == BufferData(cbLen, cbByte)
          IN  /\ outputFileFD = FD_UNOPENED \/ opened
              /\ IF writes /\ ~short
                 THEN /\ fileData' = WriteAt(file1, pos1, data)
                      /\ filePos' = pos1 + cbLen
                 ELSE /\ fileData' = file1
                      /\ filePos' = pos1
              /\ sessOpened' = IF outputFileFD # FD_UNOPENED \/ sessOpened = "failed"
                               THEN sessOpened
                               ELSE IF opened THEN "opened" ELSE "failed"
              /\ sessBytes' = IF cbFlush THEN sessBytes ELSE sessBytes \o data
              /\ writes \/ ~short
              /\ outputFileFD' = fd1
              /\ fdOpen' = (fdOpen \/ (outputFileFD = FD_UNOPENED /\ opened))
              /\ cbShort' = short
              /\ complete' = CompleteAfter(short, cbFlags)
              /\ errInSession' = (errInSession \/ short)
              /\ sessLog' = IF cbFlush THEN sessLog
                            ELSE Append(sessLog,
                                        <<cbLen, HasMarker(cbFlags), short>>)
     ELSE /\ cbShort' = FALSE
          /\ complete' = 0
          /\ UNCHANGED <<outputFileFD, fdOpen, errInSession, sessLog,
                         fileData, filePos, sessBytes, sessOpened>>
  /\ UNCHANGED <<cbByte, encFrame>>
  /\ markerInSession' = (markerInSession \/ HasMarker(cbFlags))
  /\ cpc' = "release"
  /\ UNCHANGED <<mainVars, trigVars, portVars, cbuf, cbLen, cbFlags, cbFlush,
                 sem, stdinOpen, fdLeaked, encVars, postsInSession, staleWake>>
  /\ UNCHANGED polVars
  /\ UNCHANGED burstSets
  /\ UNCHANGED state
  /\ UNCHANGED grab

\* line 509: mmal_buffer_header_release(buffer)
cb_release ==
  /\ cpc = "release"
  /\ free' = Append(free, cbuf)
  /\ cbuf' = NoSlot
  /\ cpc' = "check"
  /\ UNCHANGED <<mainVars, trigVars, is_enabled, userdata, inFlight, dropped,
                 sendFails, cbLen, cbFlags, cbFlush, cbShort, complete, sem,
                 fdVars, encVars, histVars>>
  /\ UNCHANGED fileVars
  /\ UNCHANGED polVars
  /\ UNCHANGED burstSets
  /\ UNCHANGED state
  /\ UNCHANGED grab

cb_check_enabled_noResubmit ==
  /\ cpc = "check"
  /\ cpc' = "post"
  /\ UNCHANGED <<mainVars, trigVars, portVars, cbuf, cbLen, cbFlags, cbFlush,
                 cbShort, complete, sem, fdVars, encVars, histVars>>
  /\ UNCHANGED fileVars
  /\ UNCHANGED polVars
  /\ UNCHANGED burstSets
  /\ UNCHANGED state
  /\ UNCHANGED grab

\* line 512: if (port->is_enabled)
cb_check_enabled ==
  /\ cpc = "check"
  /\ cpc' = IF is_enabled THEN "resubmit" ELSE "post"
  /\ UNCHANGED <<mainVars, trigVars, portVars, cbuf, cbLen, cbFlags, cbFlush,
                 cbShort, complete, sem, fdVars, encVars, histVars>>
  /\ UNCHANGED fileVars
  /\ UNCHANGED polVars
  /\ UNCHANGED burstSets
  /\ UNCHANGED state
  /\ UNCHANGED grab

\* lines 516-522: mmal_queue_get, mmal_port_send_buffer, log on failure.
\* The queue is reached through pData: with no userdata on the port the
\* read of pData->pstate is a read through a null pointer, which ends the
\* process.
cb_resubmit ==
  /\ cpc = "resubmit"
  /\ IF ~userdata
     THEN /\ cpc' = "crashed" /\ mpc' = "crashed"
          /\ UNCHANGED <<free, inFlight, dropped, sendFails, errInSession>>
     ELSE /\ cpc' = "post" /\ mpc' = mpc
          /\ IF free = <<>>
             THEN /\ errInSession' = TRUE
                  /\ UNCHANGED <<free, inFlight, dropped, sendFails>>
             ELSE \E ok \in SendResults :
                  /\ free' = Tail(free)
                  /\ IF ok
                     THEN /\ inFlight' = inFlight \cup {Head(free)}
                          /\ UNCHANGED <<dropped, sendFails, errInSession>>
                     ELSE /\ dropped' = dropped \cup {Head(free)}
                          /\ sendFails' = IF is_enabled THEN sendFails + 1
                                          ELSE sendFails
                          /\ errInSession' = TRUE
                          /\ UNCHANGED inFlight
  /\ UNCHANGED <<num, q, frame, trigVars, is_enabled, userdata, cbuf, cbLen,
                 cbFlags, cbFlush, cbShort, complete, sem, fdVars, encVars,
                 postsInSession, markerInSession, sessLog, staleWake>>
  /\ UNCHANGED fileVars
  /\ UNCHANGED polVars
  /\ UNCHANGED burstSets
  /\ UNCHANGED state
  /\ UNCHANGED grab

\* lines 525-526: if (complete) vcos_semaphore_post
cb_post ==
  /\ cpc = "post"
  /\ IF complete # 0
     THEN /\ sem' = sem + 1
          /\ postsInSession' = postsInSession + 1
          /\ cpc' = "close"
     ELSE /\ cpc' = "idle"
          /\ UNCHANGED <<sem, postsInSession>>
  /\ UNCHANGED <<mainVars, trigVars, portVars, cbuf, cbLen, cbFlags, cbFlush,
                 cbShort, complete, fdVars, encVars, markerInSession, sessLog,
                 errInSession, staleWake>>
  /\ UNCHANGED fileVars
  /\ UNCHANGED polVars
  /\ UNCHANGED burstSets
  /\ UNCHANGED state
  /\ UNCHANGED grab

\* lines 527-528: close(outputFileFD); outputFileFD=0
cb_close_payloadOnly ==
  /\ cpc = "close"
  /\ IF cbLen # 0
     THEN /\ fdOpen' = FALSE
          /\ stdinOpen' = (stdinOpen /\ outputFileFD # 0)
          /\ outputFileFD' = FD_CLOSED
     ELSE UNCHANGED <<fdOpen, stdinOpen, outputFileFD>>
  /\ cpc' = "idle"
  /\ UNCHANGED <<mainVars, trigVars, portVars, cbuf, cbLen, cbFlags, cbFlush,
                 cbShort, complete, sem, fdLeaked, encVars, histVars>>
  /\ UNCHANGED fileVars
  /\ UNCHANGED polVars
  /\ UNCHANGED burstSets
  /\ UNCHANGED state
  /\ UNCHANGED grab

cb_close ==
  /\ cpc = "close"
  /\ fdOpen' = FALSE
  /\ stdinOpen' = (stdinOpen /\ outputFileFD # 0)
  /\ outputFileFD' = FD_CLOSED
  /\ cpc' = "idle"
  /\ UNCHANGED <<mainVars, trigVars, portVars, cbuf, cbLen, cbFlags, cbFlush,
                 cbShort, complete, sem, fdLeaked, encVars, histVars>>
  /\ UNCHANGED fileVars
  /\ UNCHANGED polVars
  /\ UNCHANGED burstSets
  /\ UNCHANGED state
  /\ UNCHANGED grab

\* ---- main(): creating the components, and the code after the loop -------

\* outcomes of create_camera_component (541-806): success; a failure before
\* state->camera_component is assigned at 742 (component create, port count,
\* a format commit, ...); a failure after it (component enable, port enable);
\* no pool for the video port, which is logged and then read at 774
CameraOutcomes == {"ok", "fail_early", "fail_late", "no_pool"}

\* lines 1310-1312
main_create_camera ==
  /\ mpc = "create_camera"
  /\ \E r \in CameraOutcomes :
       CASE r = "ok" ->
              /\ state' = [state EXCEPT !.camera_component = "live"]
              /\ mpc' = "create_preview"
         [] r = "fail_early" ->
              /\ state' = [state EXCEPT !.exit_code = EX_SOFTWARE,
                                        !.failed = "camera"]
              /\ mpc' = "error"
         [] r = "fail_late" ->
              \* error: mmal_component_destroy(camera), the pointer stays
              /\ state' = [state EXCEPT !.camera_component = "dangling",
                                        !.exit_code = EX_SOFTWARE,
                                        !.failed = "camera"]
              /\ mpc' = "error"
         [] r = "no_pool" ->
              \* pool->queue with pool == NULL
              /\ state' = [state EXCEPT !.camera_component = "live"]
              /\ mpc' = "crashed"
  /\ UNCHANGED <<num, q, frame, trigVars, portVars, cbVars, sem, fdVars,
                 encVars, histVars, fileVars, polVars, burstSets>>
  /\ UNCHANGED grab

\* lines 1313-1317: raspipreview_create sets preview_component on success
\* only; on failure main destroys the camera component
main_create_preview ==
  /\ mpc = "create_preview"
  /\ \E ok \in BOOLEAN :
       IF ok
       THEN /\ state' = [state EXCEPT !.preview_component = "live"]
            /\ mpc' = "create_encoder"
       ELSE /\ state' = [state EXCEPT !.camera_component = "null",
                                      !.exit_code = EX_SOFTWARE,
                                      !.failed = "preview"]
            /\ mpc' = "error"
  /\ UNCHANGED <<num, q, frame, trigVars, portVars, cbVars, sem, fdVars,
                 encVars, histVars, fileVars, polVars, burstSets>>
  /\ UNCHANGED grab

\* outcomes of create_encoder_component (830-917): success; a failure
\* (component create, port count, format commit, quality, enable), all of
\* them before the state is assigned at 904-905; no pool for the output
\* port, which is logged only and returns success
EncoderOutcomes == {"ok", "fail", "no_pool"}

\* lines 1318-1322
main_create_encoder ==
  /\ mpc = "create_encoder"
  /\ \E r \in EncoderOutcomes :
       CASE r = "ok" ->
              /\ state' = [state EXCEPT !.encoder_component = "live",
                                        !.encoder_pool = "live"]
              /\ mpc' = "connect"
         [] r = "fail" ->
              /\ state' = [state EXCEPT !.preview_component = "null",
                                        !.camera_component = "null",
                                        !.exit_code = EX_SOFTWARE,
                                        !.failed = "encoder"]
              /\ mpc' = "error"
         [] r = "no_pool" ->
              /\ state' = [state EXCEPT !.encoder_component = "live"]
              /\ mpc' = "connect"
  /\ UNCHANGED <<num, q, frame, trigVars, portVars, cbVars, sem, fdVars,
                 encVars, histVars, fileVars, polVars, burstSets>>
  /\ UNCHANGED grab

\* outcomes of the two connect_ports calls (1048-1064): for each,
\* mmal_connection_create fails (the pointer stays NULL) or
\* mmal_connection_enable fails (the connection is destroyed, the pointer
\* stays).  The second call is made only when the first succeeded.
ConnectOutcomes ==
  {"ok", "preview_create", "preview_enable", "encoder_create",
   "encoder_enable"}

\* the connection pointers after the outcome r
ConnectedState(st, r) ==
  [st EXCEPT
     !.preview_connection =
        IF r = "preview_create" THEN "null"
        ELSE IF r = "preview_enable" THEN "dangling" ELSE "live",
     !.encoder_connection =
        IF r = "ok" THEN "live"
        ELSE IF r = "encoder_enable" THEN "dangling" ELSE "null",
     !.failed = IF r # "ok" /\ st.failed = "none" THEN "connect"
                ELSE st.failed]

\* lines 1347-1392: the two connect_ports calls, the semaphore, the video
\* port capture.  A connection that fails leaves exit_code at EX_OK: the
\* first falls through to the label error, the second jumps to it.
main_connect ==
  /\ mpc = "connect"
  /\ \E r \in ConnectOutcomes :
       /\ mpc' = IF r = "ok" THEN "reset" ELSE "error"
       /\ state' = ConnectedState(state, r)
  /\ UNCHANGED <<num, q, frame, trigVars, portVars, cbVars, sem, fdVars,
                 encVars, histVars, fileVars, polVars, burstSets>>
  /\ UNCHANGED grab

\* the teardown reads a pointer to a destroyed component, or dereferences
\* encoder_component for a pool that does not belong to one
TeardownUndefined ==
  \/ state.camera_component = "dangling"
  \/ state.encoder_component = "dangling"
  \/ state.preview_component = "dangling"
  \/ state.preview_connection = "dangling"
  \/ state.encoder_connection = "dangling"
  \/ state.encoder_pool # "null" /\ state.encoder_component # "live"

\* lines 1454-1488: the code after the label error, up to return exit_code.
\* Every component that is still referenced is disabled and destroyed.
\* Disabling or destroying through a dangling pointer is undefined: the
\* process dies there or goes on.
main_teardown ==
  /\ mpc = "error"
  /\ \E dies \in BOOLEAN :
       /\ dies => TeardownUndefined
       /\ mpc' = IF dies THEN "crashed" ELSE "returned"
       /\ state' = IF dies THEN state
                   ELSE [state EXCEPT
                          !.camera_component = "null",
                          !.preview_component = "null",
                          !.encoder_component = "null",
                          !.preview_connection =
                             IF @ = "null" THEN "null" ELSE "dangling",
                          !.encoder_connection =
                             IF @ = "null" THEN "null" ELSE "dangling"]
  /\ UNCHANGED <<num, q, frame, trigVars, portVars, cbVars, sem, fdVars,
                 encVars, histVars, fileVars, polVars, burstSets>>
  /\ UNCHANGED grab

\* lines 1083-1093: SIGINT (signal(SIGINT, signal_handler) at 1288) ends the
\* process with exit(130), wherever main is
signal_handler ==
  /\ mpc \notin {"returned", "exited", "crashed"}
  /\ mpc' = "exited"
  /\ state' = [state EXCEPT !.exit_code = SIGINT_EXIT]
  /\ UNCHANGED <<num, q, frame, trigVars, portVars, cbVars, sem, fdVars,
                 encVars, histVars, fileVars, polVars, burstSets>>
  /\ UNCHANGED grab

\* ---- dashgrab.cpp: the upload receiver -----------------------------------

\* what a peer sends before it closes: up to MaxStream bytes
RECURSIVE StreamsUpTo(_)
StreamsUpTo(n) ==
  IF n = 0 THEN {<<>>}
  ELSE LET shorter == StreamsUpTo(n - 1) IN
       shorter \cup {Append(st, b) : st \in {x \in shorter : Len(x) = n - 1},
                                     b \in StreamBytes}

\* the number put into the file name by processClient
GrabName(address) == address

\* lines 70-75 and 28-34: select, accept, std::async(processClient,
\* newsockfd, serv_addr.sin_addr.s_addr), open(O_WRONLY | O_CREAT)
acceptThread ==
  /\ grab.pc = "select" /\ grab.accepted < MaxConns
  /\ \E p \in Peers, data \in StreamsUpTo(MaxStream) :
       grab' = [grab EXCEPT !.pc = "process", !.peer = p, !.toRead = data,
                            !.sent = <<>>,
                            !.name = GrabName(INADDR_ANY), !.pos = 0,
                            !.accepted = grab.accepted + 1]
  /\ UNCHANGED <<mainVars, trigVars, portVars, cbVars, sem, fdVars, encVars,
                 histVars, fileVars, polVars, burstSets, state>>

\* lines 39-42: one pass of the loop of processClient: read up to
\* sizeof(buffer) bytes; len > 0: write them, the result of write is not
\* looked at (it may have written fewer); len = 0: the peer has closed
processClient ==
  /\ grab.pc = "process"
  /\ IF grab.toRead = <<>>
     THEN grab' = [grab EXCEPT !.pc = "select"]
     ELSE \E len \in 1..Len(grab.toRead), lost \in {0, 1} :
          LET chunk == SubSeq(grab.toRead, 1, len)
              written == SubSeq(chunk, 1, len - lost)
          IN /\ len <= GRAB_BUFFER
             /\ grab' = [grab EXCEPT
                  !.toRead = SubSeq(grab.toRead, len + 1, Len(grab.toRead)),
                  !.sent = grab.sent \o chunk,
                  !.files[grab.name] =
                     WriteAt(grab.files[grab.name], grab.pos, written),
                  !.pos = grab.pos + Len(written)]
  /\ UNCHANGED <<mainVars, trigVars, portVars, cbVars, sem, fdVars, encVars,
                 histVars, fileVars, polVars, burstSets, state>>

\* ---- frame advance policy: wait_for_next_frame ---------------------------

KeepRunning_strict(current_time, deadline, tmo) ==
  IF current_time > deadline /\ tmo # 0 THEN 0 ELSE 1

\* keep_running after the deadline test at entry
KeepRunning(current_time, deadline, tmo) ==
  IF current_time >= deadline /\ tmo # 0 THEN 0 ELSE 1

TimelapseTick_roundDown(next, current_time, interval) ==
  IF next = Unset
  THEN [branch |-> "first", nskip |-> 0, sleep |-> interval,
        next |-> (current_time + interval) + interval]
  ELSE LET this_delay_ms == next - current_time IN
       IF this_delay_ms < 0
       THEN IF (0 - this_delay_ms) < interval \div 2
            THEN [branch |-> "late", nskip |-> 0, sleep |-> 0,
                  next |-> next + interval]
            ELSE IF interval = 0
                 THEN [branch |-> "fault", nskip |-> 0, sleep |-> 0,
                       next |-> next]
                 ELSE LET nskip == (0 - this_delay_ms) \div interval IN
                      [branch |-> "skip", nskip |-> nskip,
                       sleep |-> this_delay_ms + nskip * interval,
                       next |-> next + (nskip + 1) * interval]
       ELSE [branch |-> "ontime", nskip |-> 0, sleep |-> this_delay_ms,
             next |-> next + interval]

TimelapseTick_skipShort(next, current_time, interval) ==
  IF next = Unset
  THEN [branch |-> "first", nskip |-> 0, sleep |-> interval,
        next |-> (current_time + interval) + interval]
  ELSE LET this_delay_ms == next - current_time IN
       IF this_delay_ms < 0
       THEN IF (0 - this_delay_ms) < interval \div 2
            THEN [branch |-> "late", nskip |-> 0, sleep |-> 0,
                  next |-> next + interval]
            ELSE IF interval = 0
                 THEN [branch |-> "fault", nskip |-> 0, sleep |-> 0,
                       next |-> next]
                 ELSE LET nskip == 1 + (0 - this_delay_ms) \div interval IN
                      [branch |-> "skip", nskip |-> nskip,
                       sleep |-> this_delay_ms + nskip * interval,
                       next |-> next + nskip * interval]
       ELSE [branch |-> "ontime", nskip |-> 0, sleep |-> this_delay_ms,
             next |-> next + interval]

TimelapseTick_oneSkipLess(next, current_time, interval) ==
  IF next = Unset
  THEN [branch |-> "first", nskip |-> 0, sleep |-> interval,
        next |-> (current_time + interval) + interval]
  ELSE LET this_delay_ms == next - current_time IN
       IF this_delay_ms < 0
       THEN IF (0 - this_delay_ms) < interval \div 2
            THEN [branch |-> "late", nskip |-> 0, sleep |-> 0,
                  next |-> next + interval]
            ELSE IF interval = 0
                 THEN [branch |-> "fault", nskip |-> 0, sleep |-> 0,
                       next |-> next]
                 ELSE LET nskip == (0 - this_delay_ms) \div interval IN
                      [branch |-> "skip", nskip |-> nskip,
                       sleep |-> this_delay_ms + (nskip + 1) * interval,
                       next |-> next + (nskip + 2) * interval]
       ELSE [branch |-> "ontime", nskip |-> 0, sleep |-> this_delay_ms,
             next |-> next + interval]

TimelapseTick_staleClock(next, current_time, interval) ==
  IF next = Unset
  THEN [branch |-> "first", nskip |-> 0, sleep |-> interval,
        next |-> current_time + interval]
  ELSE LET this_delay_ms == next - current_time IN
       IF this_delay_ms < 0
       THEN IF (0 - this_delay_ms) < interval \div 2
            THEN [branch |-> "late", nskip |-> 0, sleep |-> 0,
                  next |-> next + interval]
            ELSE IF interval = 0
                 THEN [branch |-> "fault", nskip |-> 0, sleep |-> 0,
                       next |-> next]
                 ELSE LET nskip == 1 + (0 - this_delay_ms) \div interval IN
                      [branch |-> "skip", nskip |-> nskip,
                       sleep |-> this_delay_ms + nskip * interval,
                       next |-> next + (nskip + 1) * interval]
       ELSE [branch |-> "ontime", nskip |-> 0, sleep |-> this_delay_ms,
             next |-> next + interval]

\* The TIMELAPSE case after "*frame += 1": what it adds to *frame on top of
\* that, how long it sleeps, and the new next_frame_ms.  interval = 0 with a
\* late tick divides by zero: branch "fault".  In every other branch the
\* delay passed to vcos_sleep is not negative.
TimelapseTick(next, current_time, interval) ==
  IF next = Unset
  THEN [branch |-> "first", nskip |-> 0, sleep |-> interval,
        next |-> (current_time + interval) + interval]
  ELSE LET this_delay_ms == next - current_time IN
       IF this_delay_ms < 0
       THEN IF (0 - this_delay_ms) < interval \div 2
            THEN [branch |-> "late", nskip |-> 0, sleep |-> 0,
                  next |-> next + interval]
            ELSE IF interval = 0
                 THEN [branch |-> "fault", nskip |-> 0, sleep |-> 0,
                       next |-> next]
                 ELSE LET nskip == 1 + (0 - this_delay_ms) \div interval IN
                      [branch |-> "skip", nskip |-> nskip,
                       sleep |-> this_delay_ms + nskip * interval,
                       next |-> next + (nskip + 1) * interval]
       ELSE [branch |-> "ontime", nskip |-> 0, sleep |-> this_delay_ms,
             next |-> next + interval]

\* the division by zero when it does not trap: quotient 0, so nskip = 1 and
\* the negative this_delay_ms is passed to vcos_sleep, whose uint32_t argument
\* makes it a sleep of about 2^32 ms, beyond any run considered here
FaultTick(next, current_time) ==
  [branch |-> "fault", nskip |-> 1, sleep |-> 0, next |-> next]

NoTick == [branch |-> "none", nskip |-> 0, sleep |-> 0, next |-> Unset]

ReturnValue_singleKeeps(method, keep_running, ch) ==
  IF method = FRAME_NEXT_KEYPRESS /\ (ch = "x" \/ ch = "X") THEN 0
  ELSE IF method = FRAME_NEXT_FOREVER THEN 1
  ELSE IF method = FRAME_NEXT_GPIO THEN 0
  ELSE keep_running

\* the value returned by each case of the switch
ReturnValue(method, keep_running, ch) ==
  CASE method = FRAME_NEXT_SINGLE -> 0
    [] method = FRAME_NEXT_FOREVER -> 1
    [] method = FRAME_NEXT_TIMELAPSE -> keep_running
    [] method = FRAME_NEXT_KEYPRESS ->
         IF ch = "x" \/ ch = "X" THEN 0 ELSE keep_running
    [] method = FRAME_NEXT_IMMEDIATELY -> keep_running
    [] method = FRAME_NEXT_GPIO -> 0
    [] method = FRAME_NEXT_SIGNAL -> keep_running
    [] OTHER -> keep_running

FrameAfter_skipUncounted(method, f, nskip) ==
  IF method \in {FRAME_NEXT_SINGLE, FRAME_NEXT_GPIO} THEN f ELSE f + 1

\* *frame on return
FrameAfter(method, f, nskip) ==
  CASE method = FRAME_NEXT_SINGLE -> f
    [] method = FRAME_NEXT_FOREVER -> f + 1
    [] method = FRAME_NEXT_TIMELAPSE -> (f + 1) + nskip
    [] method = FRAME_NEXT_KEYPRESS -> f + 1
    [] method = FRAME_NEXT_IMMEDIATELY -> f + 1
    [] method = FRAME_NEXT_GPIO -> f
    [] method = FRAME_NEXT_SIGNAL -> f + 1
    [] OTHER -> f

\* milliseconds spent in vcos_sleep
SleepOf(method, f, tickSleep) ==
  CASE method = FRAME_NEXT_SINGLE -> SingleSleep
    [] method = FRAME_NEXT_FOREVER -> ForeverSleep
    [] method = FRAME_NEXT_TIMELAPSE -> tickSleep
    [] method = FRAME_NEXT_IMMEDIATELY ->
         IF f = 0 THEN FirstFrameSleep ELSE NextFrameSleep
    [] OTHER -> 0

\* One call wait_for_next_frame(state, &frame).  Every sleep lasts exactly
\* the requested time.  A division by zero either kills the process
\* (polFault = "killed") or yields quotient 0 and a sleep that does not end
\* (polFault = "asleep").
wait_for_next_frame ==
  /\ polCalls < MaxTicks /\ polFault = "none"
  /\ \E ch \in Keys, trap \in BOOLEAN :
       LET current_time == now
           deadline == IF complete_time = Unset
                       THEN current_time + timeout ELSE complete_time
           keep_running == KeepRunning(current_time, deadline, timeout)
           tick0 == IF frameNextMethod = FRAME_NEXT_TIMELAPSE
                    THEN TimelapseTick(next_frame_ms, current_time, timelapse)
                    ELSE NoTick
           tick == IF tick0.branch = "fault" /\ ~trap
                   THEN FaultTick(next_frame_ms, current_time) ELSE tick0
           died == tick0.branch = "fault"
           slept == SleepOf(frameNextMethod, frame, tick.sleep)
       IN /\ (frameNextMethod # FRAME_NEXT_KEYPRESS) => ch = "n"
          /\ (tick0.branch # "fault") => trap
          /\ complete_time' = deadline
          /\ polFault' = IF ~died THEN "none"
                         ELSE IF trap THEN "killed" ELSE "asleep"
          /\ polCalls' = polCalls + 1
          /\ frame' = FrameAfter(frameNextMethod, frame, tick.nskip)
          /\ next_frame_ms' = IF frameNextMethod = FRAME_NEXT_TIMELAPSE
                              THEN tick.next ELSE next_frame_ms
          /\ now' = IF died THEN now ELSE now + slept
          /\ lastCall' =
               [ret |-> IF died THEN lastCall.ret
                        ELSE ReturnValue(frameNextMethod, keep_running, ch),
                at |-> current_time, frame0 |-> frame,
                next0 |-> next_frame_ms, slept |-> slept,
                nskip |-> tick.nskip, branch |-> tick.branch, key |-> ch,
                drifted |-> lastCall.drifted,
                start |-> IF polCalls = 0 THEN current_time
                          ELSE lastCall.start]
  /\ UNCHANGED <<frameNextMethod, timeout, timelapse, delays>>
  /\ UNCHANGED captureVars

\* the caller's work between two calls is measured in steps of this length
TimeGrid == IF timelapse >= 8 THEN timelapse \div 2 ELSE 1

\* The caller is held up (a capture, a blocked read) while the clock runs.
elapse ==
  /\ delays < MaxDelays /\ polFault = "none" /\ polCalls < MaxHeldCalls
  /\ \E k \in 1..MaxLateSteps : now' = now + k * TimeGrid
  /\ delays' = delays + 1
  /\ lastCall' = [lastCall EXCEPT !.drifted = (polCalls > 0)]
  /\ UNCHANGED <<frameNextMethod, timeout, timelapse, complete_time,
                 next_frame_ms, polFault, polCalls, frame>>
  /\ UNCHANGED captureVars

\* a run of the policy alone: any policy kind, timeout and interval
PolicyInit ==
  /\ CaptureInit
  /\ frame \in StartFrames
  /\ frameNextMethod \in Methods
  /\ timeout \in Timeouts
  /\ timelapse \in (IF frameNextMethod = FRAME_NEXT_TIMELAPSE
                    THEN Intervals ELSE {DefaultTimelapse})
  /\ now = 0
  /\ complete_time = Unset /\ next_frame_ms = Unset
  /\ polFault = "none" /\ polCalls = 0 /\ delays = 0
  /\ lastCall = NoCall

\* ---- specification -------------------------------------------------------
Orchestrator ==
  \/ main_reset \/ main_wait_high \/ main_enable \/ main_queue_length
  \/ main_prime \/ main_capture \/ main_sem_wait \/ main_disable
  \/ main_disable_return \/ main_wait_low

Callback ==
  \/ cb_body \/ cb_release \/ cb_check_enabled \/ cb_resubmit \/ cb_post
  \/ cb_close

Next ==
  \/ trigger_rise \/ trigger_fall
  \/ main_reset \/ main_wait_high \/ main_enable \/ main_queue_length
  \/ main_prime \/ main_capture \/ main_sem_wait \/ main_disable
  \/ main_disable_return \/ main_wait_low
  \/ port_deliver \/ port_flush
  \/ cb_body \/ cb_release \/ cb_check_enabled \/ cb_resubmit \/ cb_post
  \/ cb_close

Spec == Init /\ [][Next]_vars

\* both threads are scheduled fairly, and the encode stage returns the
\* buffers it can return
FairSpec ==
  /\ Init /\ [][Next]_vars
  /\ WF_vars(Orchestrator)
  /\ WF_vars(Callback)
  /\ WF_vars(port_deliver)
  /\ WF_vars(port_flush)

\* The priming loop of the first session applied to every queue that
\* mmal_queue_get can present after num was read, the queue that ran short
\* included: num = NSlots and the first k slots still queued.
PrimeInit ==
  /\ mpc = "prime"
  /\ num = NSlots /\ q = 0 /\ frame = 0
  /\ gpio = 1 /\ pulses = 1
  /\ is_enabled = TRUE /\ userdata = TRUE
  /\ \E k \in 0..NSlots : free = SubSeq(InitialQueue(NSlots), 1, k)
  /\ inFlight = {} /\ dropped = {} /\ sendFails = 0
  /\ cpc = "idle" /\ cbuf = NoSlot /\ cbLen = 0 /\ cbFlags = {}
  /\ cbFlush = FALSE /\ cbShort = FALSE /\ complete = 0
  /\ sem = 0
  /\ outputFileFD = FD_UNOPENED /\ fdOpen = FALSE /\ stdinOpen = TRUE
  /\ fdLeaked = FALSE
  /\ encOwed = 0 /\ encChunks = 0
  /\ postsInSession = 0 /\ markerInSession = FALSE /\ sessLog = <<>>
  /\ errInSession = FALSE /\ staleWake = FALSE
  /\ fileData = <<>> /\ filePos = 0 /\ cbByte = 0 /\ encFrame = 1
  /\ sessBytes = <<>> /\ sessOpened = "none"
  /\ burstSets = 0
  /\ state = RunningState
  /\ grab = GrabIdle
  /\ frameNextMethod = FRAME_NEXT_SINGLE
  /\ timeout = DefaultTimeout
  /\ timelapse = DefaultTimelapse
  /\ now = 0
  /\ complete_time = Unset /\ next_frame_ms = Unset
  /\ polFault = "none" /\ polCalls = 0 /\ delays = 0
  /\ lastCall = NoCall

PrimeSpec == PrimeInit /\ [][Next]_vars

\* encoder_buffer_callback applied to every input it distinguishes: a
\* delivered buffer with any length and flags, the port with or without
\* userdata and enabled or not, the sink unopened, open or closed.  The
\* orchestrator is in its first session: waiting for the completion while
\* the port is enabled, inside mmal_port_disable when it is not.
CallbackInit ==
  /\ is_enabled \in BOOLEAN /\ userdata \in BOOLEAN
  /\ mpc = (IF is_enabled THEN "semwait" ELSE "disabling")
  /\ num = NSlots /\ q = NSlots /\ frame = 1
  /\ gpio = 1 /\ pulses = 1
  /\ free = <<>>
  /\ cbuf = 1 /\ inFlight = Slots \ {1}
  /\ dropped = {} /\ sendFails = 0
  /\ cpc = "body" /\ cbLen \in Lengths /\ cbFlags \in FlagSets
  /\ cbFlush = FALSE /\ cbShort = FALSE /\ complete = 0
  /\ sem = 0
  /\ outputFileFD \in {FD_UNOPENED, FD_CLOSED, FD_FILE}
  /\ fdOpen = (outputFileFD = FD_FILE)
  /\ stdinOpen = TRUE /\ fdLeaked = FALSE
  /\ encOwed = (IF HasMarker(cbFlags) THEN 0 ELSE 1) /\ encChunks = 0
  /\ postsInSession = 0 /\ markerInSession = FALSE /\ sessLog = <<>>
  /\ errInSession = FALSE /\ staleWake = FALSE
  /\ fileData = <<>> /\ filePos = 0 /\ cbByte = 1
  /\ encFrame = (IF HasMarker(cbFlags) THEN 2 ELSE 1)
  /\ sessBytes = <<>>
  /\ sessOpened = (IF outputFileFD = FD_FILE THEN "opened" ELSE "none")
  /\ burstSets = 1
  /\ state = RunningState
  /\ grab = GrabIdle
  /\ frameNextMethod = FRAME_NEXT_SINGLE
  /\ timeout = DefaultTimeout
  /\ timelapse = DefaultTimelapse
  /\ now = 0
  /\ complete_time = Unset /\ next_frame_ms = Unset
  /\ polFault = "none" /\ polCalls = 0 /\ delays = 0
  /\ lastCall = NoCall

CallbackSpec == CallbackInit /\ [][Next]_vars

\* main() from its first statement: nothing created yet, the pool is made
\* by create_encoder_component
SetupInit ==
  /\ mpc = "create_camera"
  /\ num = 0 /\ q = 0 /\ frame = 0
  /\ gpio = 0 /\ pulses = 0
  /\ is_enabled = FALSE /\ userdata = FALSE
  /\ free = InitialQueue(NSlots)
  /\ inFlight = {} /\ dropped = {} /\ sendFails = 0
  /\ cpc = "idle" /\ cbuf = NoSlot /\ cbLen = 0 /\ cbFlags = {}
  /\ cbFlush = FALSE /\ cbShort = FALSE /\ complete = 0
  /\ sem = 0
  /\ outputFileFD = FD_CLOSED /\ fdOpen = FALSE /\ stdinOpen = TRUE
  /\ fdLeaked = FALSE
  /\ encOwed = 0 /\ encChunks = 0
  /\ postsInSession = 0 /\ markerInSession = FALSE /\ sessLog = <<>>
  /\ errInSession = FALSE /\ staleWake = FALSE
  /\ fileData = <<>> /\ filePos = 0 /\ cbByte = 0 /\ encFrame = 1
  /\ sessBytes = <<>> /\ sessOpened = "none"
  /\ burstSets = 0
  /\ state = NoComponents
  /\ grab = GrabIdle
  /\ frameNextMethod = FRAME_NEXT_SINGLE
  /\ timeout = DefaultTimeout
  /\ timelapse = DefaultTimelapse
  /\ now = 0
  /\ complete_time = Unset /\ next_frame_ms = Unset
  /\ polFault = "none" /\ polCalls = 0 /\ delays = 0
  /\ lastCall = NoCall

SetupNext ==
  \/ main_create_camera \/ main_create_preview \/ main_create_encoder
  \/ main_connect \/ main_teardown \/ signal_handler
  \/ Next

SetupSpec == SetupInit /\ [][SetupNext]_vars

\* the upload receiver alone, from the start of acceptThread
GrabInit ==
  /\ CaptureInit
  /\ frame = 0
  /\ frameNextMethod = FRAME_NEXT_SINGLE
  /\ timeout = DefaultTimeout
  /\ timelapse = DefaultTimelapse
  /\ now = 0
  /\ complete_time = Unset /\ next_frame_ms = Unset
  /\ polFault = "none" /\ polCalls = 0 /\ delays = 0
  /\ lastCall = NoCall

GrabNext == acceptThread \/ processClient

GrabSpec == GrabInit /\ [][GrabNext]_vars

PolicyNext == wait_for_next_frame \/ elapse

PolicySpec == PolicyInit /\ [][PolicyNext]_vars

TypeOK ==
  /\ grab.pc \in {"select", "process"}
  /\ grab.name \in GrabNames /\ grab.accepted \in 0..MaxConns
  /\ mpc \in {"reset", "waithigh", "enable", "qlen", "prime", "capture",
              "semwait", "disable", "disabling", "waitlow", "crashed",
              "create_camera", "create_preview", "create_encoder",
              "connect", "error", "returned", "exited"}
  /\ cpc \in {"idle", "body", "release", "check", "resubmit", "post", "close",
              "crashed"}
  /\ outputFileFD \in {FD_UNOPENED, FD_CLOSED, FD_FILE}
  /\ SeqToSet(free) \subseteq Slots /\ inFlight \subseteq Slots
  /\ cbuf \in Slots \cup {NoSlot}
  /\ sem \in Nat /\ complete \in {0, 1}

\* ---- properties ----------------------------------------------------------

AtBoundary == mpc \in {"waitlow", "reset", "waithigh", "enable"}

\* what the last call saw: how late it was against next_frame_ms
Lateness == lastCall.at - lastCall.next0
Returned == polCalls > 0 /\ polFault = "none"
DeadlinePassed == timeout # 0 /\ lastCall.at >= complete_time
OwnStop ==
  \/ frameNextMethod \in {FRAME_NEXT_SINGLE, FRAME_NEXT_GPIO}
  \/ frameNextMethod = FRAME_NEXT_KEYPRESS /\ lastCall.key \in {"x", "X"}

\* C14: when a session is over (the loop is back at its top) the policy has
\* been called once for each session completed so far.
C14_PolicyCalledPerSession ==
  (mpc = "reset") => (polCalls = frame)

C16_SingleStops ==
  (frameNextMethod = FRAME_NEXT_SINGLE /\ polCalls = 1) =>
    (lastCall.ret = 0 /\ frame = lastCall.frame0)

C16_Witness ==
  /\ frameNextMethod = FRAME_NEXT_SINGLE /\ polCalls = 1
  /\ timeout = 0 /\ lastCall.at > 0 /\ frame = 7 /\ lastCall.ret = 0

\* C17: under GPIO every call returns continue and does not sleep.
C17_GpioContinues ==
  (frameNextMethod = FRAME_NEXT_GPIO /\ polCalls > 0) =>
    (lastCall.ret # 0 /\ lastCall.slept = 0)

\* C18: under TIMELAPSE with interval > 0, a tick that is late by
\* L = now - next with L at least half the interval skips 1 + floor(L/interval)
\* frames and advances next by (skip + 1) * interval; interval 1000 and
\* L = 1500 skip 2; L exactly half the interval takes the skip branch.
C18_SkipCount ==
  (/\ frameNextMethod = FRAME_NEXT_TIMELAPSE /\ timelapse > 0
   /\ polCalls > 0 /\ lastCall.next0 # Unset
   /\ 2 * Lateness >= timelapse) =>
    /\ lastCall.branch = "skip"
    /\ lastCall.nskip = 1 + Lateness \div timelapse
    /\ frame = (lastCall.frame0 + 1) + lastCall.nskip
    /\ next_frame_ms = lastCall.next0 + (lastCall.nskip + 1) * timelapse
    /\ (timelapse = 1000 /\ Lateness = 1500) => lastCall.nskip = 2

C18_Witness ==
  /\ frameNextMethod = FRAME_NEXT_TIMELAPSE /\ timelapse = 1000
  /\ polCalls > 0 /\ lastCall.next0 # Unset /\ Lateness = 1500
  /\ lastCall.nskip = 2

\* a tick exactly half an interval late has been taken
C18_HalfLateTick ==
  /\ frameNextMethod = FRAME_NEXT_TIMELAPSE /\ timelapse > 0
  /\ polCalls > 0 /\ lastCall.next0 # Unset /\ 2 * Lateness = timelapse

\* C19: under TIMELAPSE with interval 1000 and no hold-up between the calls
\* the first tick sleeps one interval and sets next one interval after its
\* return; every later tick finds a delay >= 0, sleeps exactly that, skips
\* nothing and moves next by one interval; tick k returns at
\* start + k * interval, up to k = 100 and beyond.
C19_NoDrift ==
  (/\ frameNextMethod = FRAME_NEXT_TIMELAPSE /\ timelapse = 1000
   /\ polCalls > 0 /\ ~lastCall.drifted) =>
    /\ now = lastCall.start + polCalls * timelapse
    /\ next_frame_ms = now + timelapse
    /\ (polCalls = 1) =>
         (lastCall.branch = "first" /\ lastCall.slept = timelapse)
    /\ (polCalls > 1) =>
         /\ lastCall.branch = "ontime"
         /\ lastCall.next0 - lastCall.at >= 0
         /\ lastCall.slept = lastCall.next0 - lastCall.at
         /\ lastCall.nskip = 0
         /\ next_frame_ms = lastCall.next0 + timelapse

C19_Witness ==
  /\ frameNextMethod = FRAME_NEXT_TIMELAPSE /\ timelapse = 1000
  /\ polCalls = 100 /\ ~lastCall.drifted
  /\ now = lastCall.start + 100000

\* C20 (as stated): a call that returns has added exactly 1 to *frame under
\* FOREVER, TIMELAPSE, KEYPRESS, SIGNAL and IMMEDIATE, and nothing under
\* SINGLE and GPIO.
C20_FrameStepOne ==
  Returned =>
    frame = lastCall.frame0 +
            (IF frameNextMethod \in {FRAME_NEXT_SINGLE, FRAME_NEXT_GPIO}
             THEN 0 ELSE 1)

\* C20 (amended): as stated, except that a TIMELAPSE tick adds 1 + nskip,
\* where nskip is 0 on a first, on-time or accepted-late tick and
\* 1 + floor(L / interval) on a tick that skips.
C20_FrameStep ==
  (polCalls > 0) =>
    /\ (frameNextMethod \in {FRAME_NEXT_SINGLE, FRAME_NEXT_GPIO})
         => frame = lastCall.frame0
    /\ (frameNextMethod \in {FRAME_NEXT_FOREVER, FRAME_NEXT_KEYPRESS,
                             FRAME_NEXT_SIGNAL, FRAME_NEXT_IMMEDIATELY})
         => frame = lastCall.frame0 + 1
    /\ (frameNextMethod = FRAME_NEXT_TIMELAPSE) =>
         /\ frame = (lastCall.frame0 + 1) + lastCall.nskip
         /\ (lastCall.branch \in {"first", "ontime", "late"})
              => lastCall.nskip = 0
         /\ (lastCall.branch = "skip")
              => lastCall.nskip = 1 + Lateness \div timelapse
         /\ (lastCall.branch = "fault") => lastCall.nskip \in {0, 1}

C20_Witness ==
  /\ frameNextMethod = FRAME_NEXT_TIMELAPSE /\ polCalls > 1
  /\ lastCall.branch = "skip" /\ lastCall.nskip = 2
  /\ frame = lastCall.frame0 + 3

\* C23: under TIMELAPSE with interval > 0, a tick that is late by L with
\* 0 < L < interval/2 accepts the lateness: no sleep, no skipped frame
\* (*frame grows by exactly 1) and next moves by exactly one interval.
C23_LateAccepted ==
  (/\ frameNextMethod = FRAME_NEXT_TIMELAPSE /\ timelapse > 0
   /\ polCalls > 0 /\ lastCall.next0 # Unset
   /\ Lateness > 0 /\ 2 * Lateness < timelapse) =>
    /\ lastCall.branch = "late"
    /\ lastCall.slept = 0 /\ lastCall.nskip = 0
    /\ frame = lastCall.frame0 + 1
    /\ next_frame_ms = lastCall.next0 + timelapse

\* C24: under TIMELAPSE with interval > 0, when a tick has returned the
\* stored next_frame_ms is more than half an interval and at most one
\* interval ahead of the clock, however late the tick arrived.
C24_NextWithinInterval ==
  (/\ frameNextMethod = FRAME_NEXT_TIMELAPSE /\ timelapse > 0
   /\ polCalls > 0 /\ now = lastCall.at + lastCall.slept) =>
    /\ 2 * (next_frame_ms - now) > timelapse
    /\ next_frame_ms - now <= timelapse

C24_Witness ==
  /\ frameNextMethod = FRAME_NEXT_TIMELAPSE /\ timelapse = 4
  /\ polCalls = 3 /\ lastCall.branch = "late" /\ Lateness = 1
  /\ lastCall.frame0 > polCalls
  /\ now = lastCall.at /\ next_frame_ms - now = 3

\* the queue holds a slot for every pass of the priming loop still to run
QueueCoversPriming == (mpc = "prime") => (Len(free) >= num - q)

BetweenCallbacks ==
  mpc = "semwait" /\ cpc = "idle" /\ is_enabled /\ Len(sessLog) >= 1

C28_OpenedOnlyOnPayload ==
  (sessOpened = "opened") => (sessBytes # <<>>)

\* C29: MMAL_PARAMETER_CAMERA_BURST_CAPTURE is set once, with the first
\* capture request, and by no later session.
C29_BurstSetOnce ==
  burstSets = (IF frame = 0 THEN 0 ELSE 1)

C29_Witness ==
  frame = 2 /\ burstSets = 1 /\ mpc = "waitlow"

\* C21: when the creation of the camera, preview or encoder component has
\* failed, main is not in the capture loop and does not die, and once it has
\* returned the exit code is not 0 and no component is left.
C21_CreationFailureTearsDown ==
  (state.failed \in {"camera", "preview", "encoder"}) =>
    /\ mpc \in {"error", "returned", "exited"}
    /\ (mpc = "returned") =>
         /\ state.exit_code # EX_OK
         /\ state.camera_component = "null"
         /\ state.preview_component = "null"
         /\ state.encoder_component = "null"

\* C22: when the process has ended on a shutdown request, the code after the
\* capture loop has run: no component is left alive.
C22_ShutdownRunsTeardown ==
  (mpc = "exited") =>
    /\ state.camera_component # "live"
    /\ state.preview_component # "live"
    /\ state.encoder_component # "live"

\* C30: the file a connection is written to is named by the address of its
\* peer, and when the peer has closed that file holds the bytes it sent, in
\* order.
C30_FilePerPeer ==
  /\ (grab.pc = "process") => (grab.name = GrabName(grab.peer))
  /\ (grab.pc = "select" /\ grab.accepted > 0) =>
       (grab.files[GrabName(grab.peer)] = grab.sent)

\* C31: whenever the callback is about to call close(outputFileFD), the
\* descriptor is one returned by open() and still open: close is never
\* called with 0 or -1, nor twice for one open.  Sessions whose open()
\* failed are left aside: there the descriptor is -1 by the failure itself.
C31_CloseOnlyOpened ==
  (cpc = "close" /\ sessOpened # "failed") => (outputFileFD > 0 /\ fdOpen)

\* C32: a callback that starts while no open() has been attempted in the
\* session (the first callback of the session) finds outputFileFD = -1.
C32_FirstCallbackUnopened ==
  (cpc = "body" /\ userdata /\ sessOpened = "none") =>
    (outputFileFD = FD_UNOPENED)

\* the first callback of the second session is about to run
C32_Witness ==
  /\ cpc = "body" /\ userdata /\ sessOpened = "none"
  /\ frame = 2 /\ outputFileFD = FD_UNOPENED

\* C33: no TIMELAPSE tick divides by zero, whatever the interval >= 0:
\* the calls of wait_for_next_frame never end in a fault.
C33_TickDefined ==
  (frameNextMethod = FRAME_NEXT_TIMELAPSE) => (polFault = "none")

\* C34: a TIMELAPSE tick with interval > 0 that took the skip branch slept
\* for more than 0 and at most one interval.
C34_SkipDelayInRange ==
  (frameNextMethod = FRAME_NEXT_TIMELAPSE /\ timelapse > 0 /\ polCalls > 0
   /\ lastCall.branch = "skip") =>
    (lastCall.slept > 0 /\ lastCall.slept <= timelapse)

\* a tick one and a half intervals late slept the remaining half interval
C34_Witness ==
  /\ frameNextMethod = FRAME_NEXT_TIMELAPSE /\ timelapse = 4
  /\ polCalls > 0 /\ lastCall.branch = "skip"
  /\ Lateness = 6 /\ lastCall.nskip = 2 /\ lastCall.slept = 2

\* C35: when main reaches the teardown, no pointer it is going to disable
\* or destroy refers to a component that was destroyed already: nothing is
\* destroyed twice or used after it was destroyed.
C35_NoUseAfterDestroy ==
  (mpc = "error") =>
    (/\ state.camera_component # "dangling"
     /\ state.preview_component # "dangling"
     /\ state.encoder_component # "dangling")

\* C36: the capture loop is entered only with an encoder buffer pool, and
\* no session reads the queue of a pool that does not exist.
C36_LoopHasPool ==
  (mpc \in {"reset", "waithigh", "enable", "qlen", "prime", "capture",
            "semwait", "disable", "disabling", "waitlow"}) =>
    (state.encoder_pool = "live")

\* C37: after a failed connection no session is started, the teardown runs
\* to its end and main returns a non-zero exit code.
C37_ConnectFailureReported ==
  (state.failed = "connect") =>
    (/\ mpc \in {"error", "returned", "exited"}
     /\ frame = 0
     /\ (mpc = "returned") => (state.exit_code # EX_OK))

\* C1: the slots in the free queue, in flight at the port and held by a
\* running callback add up to NSlots, and every slot is in exactly one of
\* these three places.
C1_PoolInvariant ==
  /\ Len(free) + Cardinality(inFlight) + Cardinality(InDelivery) = NSlots
  /\ \A s \in Slots :
       Cardinality({i \in 1..Len(free) : free[i] = s})
         + (IF s \in inFlight THEN 1 ELSE 0)
         + (IF s \in InDelivery THEN 1 ELSE 0) = 1

\* C2: in a session the callback posts complete_semaphore at most once, so
\* the semaphore (created with count 0) never holds a count above 1.
C2_OnePostPerSession == postsInSession <= 1 /\ sem <= 1

\* C3: the wait of a session is never satisfied by a post of an earlier
\* session: when vcos_semaphore_wait returns, a post was made in this session.
C3_NoStaleWake == ~staleWake

\* C4: the callback touches outputFileFD only between the orchestrator's
\* enable and the return of its disable; whenever the orchestrator is at a
\* session boundary (where it resets the descriptor to -1) no callback is
\* running and none can start.
C4_NoOverlap ==
  AtBoundary => (cpc = "idle" /\ ~is_enabled /\ inFlight = {})

C4_Witness ==
  mpc = "reset" /\ frame >= 1 /\ outputFileFD = FD_CLOSED /\ postsInSession = 1

\* C5: if the encode stage delivers a marked buffer for every capture request
\* while the orchestrator waits, then under fair scheduling every
\* vcos_semaphore_wait returns.
C5_WaitReturns ==
  [](mpc = "semwait" => <>(markerInSession \/ mpc # "semwait"))
    => [](mpc = "semwait" => <>(mpc = "disable"))

C5_Witness ==
  mpc = "disable" /\ markerInSession /\ ~staleWake /\ frame = MaxPulses

\* C6: after a completed session the free queue holds all NSlots slots again.
C6_PoolRestored == (mpc = "waitlow") => (Len(free) = NSlots)

\* C7: a slot whose mmal_port_send_buffer failed is not lost: once the
\* session is over it is back in the free queue (or held by the port).
C7_NoSlotLost ==
  (mpc = "waitlow") => (\A s \in dropped : s \in SeqToSet(free) \cup inFlight)

\* C8: after a recoverable error in a session (failed submit, short write,
\* empty mmal_queue_get) the orchestrator still reaches the trigger wait that
\* ends the session.
C8_NextCycleReached ==
  (errInSession /\ mpc \in {"prime", "capture", "semwait", "disable", "disabling"})
    ~> (mpc = "waitlow")

C10_ZeroPayloadSession ==
  (mpc = "waitlow" /\ sessLog = << <<0, TRUE, FALSE>> >>)
    => (postsInSession = 1 /\ outputFileFD = FD_CLOSED /\ ~fdOpen)

C10_Witness ==
  /\ mpc = "waitlow" /\ sessLog = << <<0, TRUE, FALSE>> >>
  /\ postsInSession = 1 /\ ~staleWake

\* C11: when a session that opened the destination and had no write error
\* is over, the file holds exactly the payload bytes handed to the callback
\* in that session, in arrival order.
C11_FileHoldsPayload ==
  (/\ mpc = "waitlow"
   /\ sessOpened = "opened"
   /\ \A i \in 1..Len(sessLog) : ~sessLog[i][3])
    => fileData = sessBytes

\* the order of the orchestrator's steps within one session
SessionOrder ==
  <<"enable", "qlen", "prime", "capture", "semwait", "disable", "disabling",
    "waitlow">>

\* C12: in every session the orchestrator enables the port, primes it with
\* the num slots that were free, requests the capture, waits on the
\* semaphore and disables the port only after waking, in this order; the
\* capture request is issued only when the priming loop has run num times.
C12_SessionOrder ==
  [][/\ \A i \in 1..(Len(SessionOrder) - 1) :
          (mpc = SessionOrder[i] /\ mpc' # mpc)
            => mpc' \in {SessionOrder[i + 1], "crashed"}
     /\ (~is_enabled /\ is_enabled') => mpc = "enable"
     /\ (encOwed' > encOwed) => (mpc = "capture" /\ is_enabled /\ q = num)
     /\ (mpc = "semwait" /\ mpc' # mpc) => (sem > 0 /\ is_enabled')
     /\ (is_enabled /\ ~is_enabled') => mpc = "disable"]_vars

C12_Witness ==
  mpc = "waitlow" /\ frame = 1 /\ num = NSlots /\ q = num /\ ~is_enabled

\* C13: every session is started by a rising edge of its own: the number of
\* capture requests never exceeds the number of rising edges of the line, so
\* a line held high across a completed session starts no second session.
C13_OneSessionPerPulse == frame <= pulses

C13_Witness == mpc = "waitlow" /\ gpio = 1 /\ frame = 1 /\ pulses = 1

====
